---- MODULE Spec2Model ----
(***************************************************************************)
(* A model of pdfimposer's converters: AbstractConverter (layout, output   *)
(* format, orientation), StreamConverter (the booklet, linearize and       *)
(* reduce sequences, the imposition loop __do_reduce and linearize) and    *)
(* FileConverter (opening the destination file).                           *)
(*                                                                         *)
(* A document is a sequence of pages; a page is a sequence of cells, one   *)
(* per region of the sheet in row-major order; a cell is a sequence of     *)
(* integers naming what is drawn there (<<p>>: source page p, <<>>:        *)
(* nothing).  An input document as the user gives it has one-cell pages.   *)
(* The document backend's rotate() sets the page's rotation attribute and  *)
(* does not move the cells.                                                *)
(***************************************************************************)
EXTENDS Integers, Sequences, FiniteSets, TLC

\* ------------------------------------------------------------- bounds
\* Input documents have up to MaxPages pages; layouts are up to MaxGrid by
\* MaxGrid.
MaxPages == 8
MaxGrid == 3

\* Landscape and square input documents have up to MaxOrientedPages pages,
\* the others are portrait.  On documents of more than MaxFormatPages pages
\* the format names tried are those of CommonFormats.
MaxOrientedPages == 4
MaxFormatPages == 1

\* The imposition loop runs for ever on some sequences: the model follows it
\* for ExtraSheets sheets more than the sequence has slots for.
ExtraSheets == 1

\* ---------------------------------------------------------- constants
PAGE_FORMATS ==
    [A3 |-> <<842, 1192>>, A4 |-> <<595, 842>>, A5 |-> <<420, 595>>,
     Tabloid |-> <<792, 1224>>, Letter |-> <<612, 792>>, Legal |-> <<612, 1008>>]

PORTRAIT == "PORTRAIT"
LANDSCAPE == "LANDSCAPE"
NoOrientation == "None"

SHORT_EDGE == "short-edge flip"
LONG_EDGE == "long-edge flip"

\* None in a page sequence: a blank page.
Blank == -1

\* ------------------------------------------------------------ helpers
Max(a, b) == IF a > b THEN a ELSE b
CeilDiv(a, b) == (a + b - 1) \div b

\* list(range(lo, hi))
Range(lo, hi) == [i \in 1..Max(hi - lo, 0) |-> lo + i - 1]

\* The seq repeated n times, as list.extend does in a loop of n rounds.
RECURSIVE Repeat(_, _)
Repeat(s, n) == IF n <= 0 THEN <<>> ELSE s \o Repeat(s, n - 1)

\* list.insert(index, x) for index >= 0: past the end it appends.
InsertAt(s, index, x) ==
    IF index >= Len(s) THEN Append(s, x)
    ELSE SubSeq(s, 1, index) \o <<x>> \o SubSeq(s, index + 1, Len(s))

\* --------------------------------------- layout values and their parsing
Digits == <<"0", "1", "2", "3", "4", "5", "6", "7", "8", "9">>
DigitValue(c) == (CHOOSE i \in 1..10 : Digits[i] = c) - 1
IsDigit(c) == \E i \in 1..10 : Digits[i] = c

\* str.split("x"): the pieces between the separators, empty ones included.
RECURSIVE SplitX(_, _)
SplitX(chars, piece) ==
    IF chars = <<>> THEN <<piece>>
    ELSE IF Head(chars) = "x" THEN <<piece>> \o SplitX(Tail(chars), <<>>)
    ELSE SplitX(Tail(chars), Append(piece, Head(chars)))

RECURSIVE DigitsValue(_, _)
DigitsValue(chars, acc) ==
    IF chars = <<>> THEN acc
    ELSE DigitsValue(Tail(chars), 10 * acc + DigitValue(Head(chars)))

\* int(s) accepts an optional sign followed by digits.
Unsigned(chars) == IF chars # <<>> /\ Head(chars) \in {"-", "+"} THEN Tail(chars) ELSE chars
IsIntLiteral(chars) ==
    /\ Unsigned(chars) # <<>>
    /\ \A i \in 1..Len(Unsigned(chars)) : IsDigit(Unsigned(chars)[i])
IntOf(chars) ==
    IF Head(chars) = "-" THEN 0 - DigitsValue(Unsigned(chars), 0)
    ELSE DigitsValue(Unsigned(chars), 0)

StrLayout(chars) == [kind |-> "str", chars |-> chars, items |-> <<>>]
SeqLayout(items) == [kind |-> "seq", chars |-> <<>>, items |-> items]
OtherLayout == [kind |-> "other", chars |-> <<>>, items |-> <<>>]

\* str(w) + "x" + str(h) for one-digit w and h.
GridString(w, h) == <<Digits[w + 1], "x", Digits[h + 1]>>

MalformedLayouts ==
    {StrLayout(<<"0", "x", "1">>), StrLayout(<<"-", "1", "x", "2">>),
     StrLayout(<<"2", "x", "a">>), StrLayout(<<"a", "x", "2">>),
     StrLayout(<<"2">>), StrLayout(<<"2", "x", "1", "x", "1">>),
     SeqLayout(<<0, 2>>), SeqLayout(<<1, 2, 3>>), OtherLayout}

LayoutInputs ==
    {StrLayout(GridString(w, h)) : w \in 1..MaxGrid, h \in 1..MaxGrid}
        \cup {SeqLayout(<<w, w>>) : w \in 1..MaxGrid}
        \cup MalformedLayouts

\* ------------------------------------------------------ AbstractConverter
get_pages_in_sheet(w, h) == w * h

Orientation(width, height) ==
    IF height > width THEN PORTRAIT
    ELSE IF height < width THEN LANDSCAPE
    ELSE NoOrientation

\* A mutant: the two comparisons of width and height are the wrong way round.
set_output_orientation_reversed(orientation, size) ==
    LET wanted == IF orientation = LANDSCAPE THEN LANDSCAPE ELSE PORTRAIT
        w == size[1]
        h == size[2]
    IN  IF (wanted = PORTRAIT /\ w < h) \/ (wanted = LANDSCAPE /\ h < w)
        THEN <<h, w>>
        ELSE size

\* The (width, height) _set_output_orientation leaves: bool() of the wanted
\* orientation is LANDSCAPE for LANDSCAPE and PORTRAIT for anything else.
set_output_orientation(orientation, size) ==
    LET wanted == IF orientation = LANDSCAPE THEN LANDSCAPE ELSE PORTRAIT
        w == size[1]
        h == size[2]
    IN  IF (wanted = PORTRAIT /\ w > h) \/ (wanted = LANDSCAPE /\ h > w)
        THEN <<h, w>>
        ELSE size

\* set_layout: the error raised ("none" if it returns) and the stored pair
\* it leaves, given the pair stored before the call.
set_layout(layout, stored) ==
    LET pieces == IF layout.kind = "str" THEN SplitX(layout.chars, <<>>) ELSE <<>>
    IN  CASE layout.kind = "str" /\ Len(pieces) # 2 ->
                [err |-> "ValueError", pair |-> stored]
          [] layout.kind = "str" /\ ~IsIntLiteral(pieces[1]) ->
                [err |-> "ValueError", pair |-> stored]
          [] layout.kind = "str" /\ ~IsIntLiteral(pieces[2]) ->
                [err |-> "ValueError", pair |-> <<IntOf(pieces[1]), stored[2]>>]
          [] layout.kind = "str" ->
                [err |-> "none", pair |-> <<IntOf(pieces[1]), IntOf(pieces[2])>>]
          [] layout.kind = "seq" /\ Len(layout.items) = 2 ->
                [err |-> "none", pair |-> <<layout.items[1], layout.items[2]>>]
          [] OTHER ->
                [err |-> "ValueError", pair |-> stored]

\* A mutant: the width and the height of the table entry are stored the
\* other way round.
set_output_format_swapped(page_format, size) ==
    IF page_format \in DOMAIN PAGE_FORMATS
    THEN [err |-> "none",
          size |-> <<PAGE_FORMATS[page_format][2], PAGE_FORMATS[page_format][1]>>]
    ELSE [err |-> "UnknownFormatError", size |-> size]

\* set_output_format: the error raised and the (width, height) it leaves.
set_output_format(page_format, size) ==
    IF page_format \in DOMAIN PAGE_FORMATS
    THEN [err |-> "none", size |-> PAGE_FORMATS[page_format]]
    ELSE [err |-> "UnknownFormatError", size |-> size]

\* The keys of PAGE_FORMATS in the order the dict gives them.
FormatNames == <<"A3", "A4", "A5", "Tabloid", "Letter", "Legal">>

\* The values get_output_format compares: the sizes of the table are
\* numbers, get_output_width and get_output_height without a call are bound
\* methods, which equal no number.
Number(n) == <<"int", n>>
BoundMethod(getter) == <<"method", getter>>
GetOutputWidth == 1
GetOutputHeight == 2

\* get_output_format: next() of the names whose dimensions equal
\* (self.get_output_width, self.get_output_height); next() of an empty
\* generator raises StopIteration.
get_output_format ==
    LET compared == <<BoundMethod(GetOutputWidth), BoundMethod(GetOutputHeight)>>
        dimensions(f) == <<Number(PAGE_FORMATS[f][1]), Number(PAGE_FORMATS[f][2])>>
        found == {i \in 1..Len(FormatNames) : dimensions(FormatNames[i]) = compared}
    IN  IF found = {} THEN [err |-> "StopIteration", name |-> "none"]
        ELSE [err |-> "none",
              name |-> FormatNames[CHOOSE i \in found : \A j \in found : i <= j]]

\* -------------------------------------------------------- StreamConverter
\* The comparators of __fix_page_orientation_for_booklet and _for_linearize.
is_two_times(op1, op2) == op1 = 2 * op2

\* A mutant: the comparison of __is_two_times.
is_half_reversed(op1, op2) == op1 = 2 * op2

is_half(op1, op2) == op2 = 2 * op1

\* A mutant: linearize fixes the orientation with the comparator of the
\* booklet.
CmpTwoTimes(direction, op1, op2) == is_two_times(op1, op2)

Cmp(direction, op1, op2) ==
    IF direction = "booklet" THEN is_two_times(op1, op2) ELSE is_half(op1, op2)

\* A mutant: with neither number the double of the other the output size
\* is left as it is.
fix_page_orientation_keeps(direction, w, h, pages, in_size, out_size) ==
    LET input == Orientation(in_size[1], in_size[2])
        output == Orientation(out_size[1], out_size[2])
        keep == [err |-> "none", size |-> out_size]
        turn(o) == [err |-> "none", size |-> set_output_orientation(o, out_size)]
        mismatch == [err |-> "MismatchingOrientationsError", size |-> out_size]
    IN  IF pages = 0 THEN [err |-> "IndexError", size |-> out_size]
        ELSE IF Cmp(direction, w, h)
        THEN IF input = PORTRAIT
             THEN IF output = PORTRAIT THEN turn(LANDSCAPE) ELSE keep
             ELSE mismatch
        ELSE IF Cmp(direction, h, w)
        THEN IF input = LANDSCAPE
             THEN IF output = LANDSCAPE THEN turn(PORTRAIT) ELSE keep
             ELSE mismatch
        ELSE keep

\* A mutant: where the orientations fit the layout the output width and
\* height are swapped whatever the output orientation is.
fix_page_orientation_turns(direction, w, h, pages, in_size, out_size) ==
    LET input == Orientation(in_size[1], in_size[2])
        output == Orientation(out_size[1], out_size[2])
        keep == [err |-> "none", size |-> out_size]
        swap == [err |-> "none", size |-> <<out_size[2], out_size[1]>>]
        turn(o) == [err |-> "none", size |-> set_output_orientation(o, out_size)]
        mismatch == [err |-> "MismatchingOrientationsError", size |-> out_size]
    IN  IF pages = 0 THEN [err |-> "IndexError", size |-> out_size]
        ELSE IF Cmp(direction, w, h)
        THEN IF input = PORTRAIT THEN swap ELSE mismatch
        ELSE IF Cmp(direction, h, w)
        THEN IF input = LANDSCAPE THEN swap ELSE mismatch
        ELSE IF input = LANDSCAPE
             THEN IF output = PORTRAIT THEN turn(LANDSCAPE) ELSE keep
             ELSE IF output = LANDSCAPE THEN turn(PORTRAIT) ELSE keep

\* __fix_page_orientation: the error raised and the output size it leaves.
\* Every branch reads the first input page, which an empty document lacks.
fix_page_orientation(direction, w, h, pages, in_size, out_size) ==
    LET input == Orientation(in_size[1], in_size[2])
        output == Orientation(out_size[1], out_size[2])
        keep == [err |-> "none", size |-> out_size]
        turn(o) == [err |-> "none", size |-> set_output_orientation(o, out_size)]
        mismatch == [err |-> "MismatchingOrientationsError", size |-> out_size]
    IN  IF pages = 0 THEN [err |-> "IndexError", size |-> out_size]
        ELSE IF Cmp(direction, w, h)
        THEN IF input = PORTRAIT
             THEN IF output = PORTRAIT THEN turn(LANDSCAPE) ELSE keep
             ELSE mismatch
        ELSE IF Cmp(direction, h, w)
        THEN IF input = LANDSCAPE
             THEN IF output = LANDSCAPE THEN turn(PORTRAIT) ELSE keep
             ELSE mismatch
        ELSE IF input = LANDSCAPE
             THEN IF output = PORTRAIT THEN turn(LANDSCAPE) ELSE keep
             ELSE IF output = LANDSCAPE THEN turn(PORTRAIT) ELSE keep

\* int(x / 2): Python truncates towards zero.
HalfOf(x) == IF x >= 0 THEN x \div 2 ELSE 0 - ((0 - x) \div 2)

\* a % b as Python computes it (the sign of the divisor), b # 0.
PyMod(a, b) == IF b > 0 THEN a % b ELSE 0 - ((0 - a) % (0 - b))

\* The page list of __get_sequence_for_booklet, blanks added up to a
\* multiple of 4.
PaddedPages(n_pages) ==
    LET n_missing_pages == IF n_pages % 4 = 0 THEN 0 ELSE 4 - (n_pages % 4)
    IN  Range(0, n_pages) \o Repeat(<<Blank>>, n_missing_pages)

append_and_copy(pair, sheet, copy) ==
    IF copy THEN Repeat(pair, HalfOf(sheet)) ELSE pair

\* A mutant: the second spread is taken as the first, last page first.
RECURSIVE BookletOrderLastFirst(_, _, _)
BookletOrderLastFirst(pages, sheet, copy) ==
    IF pages = <<>> THEN <<>>
    ELSE LET n == Len(pages)
         IN  append_and_copy(<<pages[n], pages[1]>>, sheet, copy)
                 \o append_and_copy(<<pages[n - 1], pages[2]>>, sheet, copy)
                 \o BookletOrderLastFirst(SubSeq(pages, 3, n - 2), sheet, copy)

\* The while loop of __get_sequence_for_booklet: pop(), pop(0), then pop(0),
\* pop().
RECURSIVE BookletOrder(_, _, _)
BookletOrder(pages, sheet, copy) ==
    IF pages = <<>> THEN <<>>
    ELSE LET n == Len(pages)
         IN  append_and_copy(<<pages[n], pages[1]>>, sheet, copy)
                 \o append_and_copy(<<pages[2], pages[n - 1]>>, sheet, copy)
                 \o BookletOrder(SubSeq(pages, 3, n - 2), sheet, copy)

get_sequence_for_booklet(n_pages, sheet, copy) ==
    BookletOrder(PaddedPages(n_pages), sheet, copy)

append_and_remove_copies(pair, sheet, copy) ==
    pair \o (IF copy THEN Repeat(<<Blank>>, sheet - Len(pair)) ELSE <<>>)

\* A mutant: the second pair of a block holds one page twice, as the first.
RECURSIVE LinearOrderSamePair(_, _, _, _)
LinearOrderSamePair(i, stop, sheet, copy) ==
    IF i >= stop THEN <<>>
    ELSE append_and_remove_copies(<<i \div 2, i \div 2>>, sheet, copy)
             \o append_and_remove_copies(<<i \div 2 + 1, i \div 2 + 1>>, sheet, copy)
             \o LinearOrderSamePair(i + 4, stop, sheet, copy)

\* A mutant: the loop steps by 8, so every other block is left out.
RECURSIVE LinearOrderStepEight(_, _, _, _)
LinearOrderStepEight(i, stop, sheet, copy) ==
    IF i >= stop THEN <<>>
    ELSE append_and_remove_copies(<<i \div 2, i \div 2>>, sheet, copy)
             \o append_and_remove_copies(<<i \div 2 + 1, i \div 2 + 2>>, sheet, copy)
             \o LinearOrderStepEight(i + 8, stop, sheet, copy)

\* The for loop of __get_sequence_for_linearize from index i on.
RECURSIVE LinearOrder(_, _, _, _)
LinearOrder(i, stop, sheet, copy) ==
    IF i >= stop THEN <<>>
    ELSE append_and_remove_copies(<<i \div 2, i \div 2>>, sheet, copy)
             \o append_and_remove_copies(<<i \div 2 + 1, i \div 2 + 2>>, sheet, copy)
             \o LinearOrder(i + 4, stop, sheet, copy)

\* A mutant: the sequence linearize takes for a document that is no booklet.
get_sequence_for_linearize_plain(n_pages, sheet, copy) ==
    Range(0, n_pages * sheet)

get_sequence_for_linearize(n_pages, sheet, copy) ==
    LinearOrder(0, n_pages * sheet, sheet, copy)

\* A mutant: the pages are copied in turns, not each in a row.
CopiedPagesInTurns(page, n_pages, sheet) ==
    Repeat(Range(page, n_pages), sheet)

RECURSIVE CopiedPages(_, _, _)
CopiedPages(page, n_pages, sheet) ==
    IF page >= n_pages THEN <<>>
    ELSE Repeat(<<page>>, sheet) \o CopiedPages(page + 1, n_pages, sheet)

\* __get_sequence_for_reduce raises ZeroDivisionError on len % 0.
reduce_raises(sheet, copy) == ~copy /\ sheet = 0

\* A mutant: the last sheet is not filled up with blanks.
get_sequence_for_reduce_unpadded(n_pages, sheet, copy) ==
    IF copy THEN CopiedPages(0, n_pages, sheet) ELSE Range(0, n_pages)

get_sequence_for_reduce(n_pages, sheet, copy) ==
    IF copy THEN CopiedPages(0, n_pages, sheet)
    ELSE IF PyMod(n_pages, sheet) # 0
         THEN Range(0, n_pages) \o Repeat(<<Blank>>, sheet - PyMod(n_pages, sheet))
         ELSE Range(0, n_pages)

\* ------------------------------------------------------------- state
VARIABLES
    pc,               \* "new", "failed", "idle", "do_reduce", "linearize"
    err,              \* the exception the last call raised, or "none"
    conversion,       \* the conversion the run variables below belong to
    outfile,          \* the destination file: "absent", "old" (there before the
                      \* converter), "open" (created or truncated by open "wb")
    inpdf,            \* the input document
    in_size,          \* (width, height) of the first input page
    pages_in_width,
    pages_in_height,
    output_width,
    output_height,
    page_format,      \* the name given to the last set_output_format that returned
    copy_pages,
    two_sided_flip,
    sequence,         \* the page sequence of the running conversion
    current_page,     \* __do_reduce: the index into sequence
    input_page,       \* linearize: the input page being cut
    output_page,      \* __do_reduce: the sheet index; linearize: the slot counter
    outpdf,           \* the output document: pages with their cells and rotation
    log,              \* the calls made on the callback and the backend, in order
    reopened,         \* the input document is the output of an earlier run
    orig_pages,       \* the page count of the document that run started from
    orig_op           \* the conversion of that run

vars ==
    <<pc, err, conversion, outfile, inpdf, in_size, pages_in_width, pages_in_height,
      output_width, output_height, page_format, copy_pages, two_sided_flip,
      sequence, current_page, input_page, output_page, outpdf, log, reopened,
      orig_pages, orig_op>>

config == <<pages_in_width, pages_in_height, output_width, output_height,
            page_format, copy_pages, two_sided_flip>>
document == <<inpdf, in_size, reopened, orig_pages, orig_op>>
run == <<sequence, current_page, input_page, output_page, outpdf, log>>

\* The first pages of the input documents: portrait, landscape and square.
PortraitSize == <<420, 595>>
InputSizes == {PortraitSize, <<595, 420>>, <<500, 500>>}

\* The local variables of a conversion as a new call finds them.
NoRun ==
    /\ sequence' = <<>>
    /\ current_page' = 0
    /\ input_page' = 0
    /\ output_page' = 0
    /\ outpdf' = <<>>
    /\ log' = <<>>

\* A document of n pages as the user gives it: page p draws p.
LinearDocument(n) == [p \in 1..n |-> << <<p - 1>> >>]

get_page_count == Len(inpdf)
pages_in_sheet == get_pages_in_sheet(pages_in_width, pages_in_height)

Init ==
    /\ pc = "new"
    /\ err = "none"
    /\ conversion = "none"
    /\ outfile \in {"absent", "old"}
    /\ \E n \in 0..MaxPages : inpdf = LinearDocument(n)
    /\ in_size \in InputSizes
    /\ (Len(inpdf) = 0 \/ Len(inpdf) > MaxOrientedPages) => in_size = PortraitSize
    /\ pages_in_width = 0
    /\ pages_in_height = 0
    /\ output_width = 0
    /\ output_height = 0
    /\ page_format = "none"
    /\ copy_pages = FALSE
    /\ two_sided_flip = SHORT_EDGE
    /\ sequence = <<>>
    /\ current_page = 0
    /\ input_page = 0
    /\ output_page = 0
    /\ outpdf = <<>>
    /\ log = <<>>
    /\ reopened = FALSE
    /\ orig_pages = 0
    /\ orig_op = "none"

\* ------------------------------------------------- FileConverter.__init__
\* The destination is opened for writing before StreamConverter.__init__
\* runs AbstractConverter.__init__, whose set_layout and set_output_format
\* may raise.
FileConverterInit(layout, format, flip, copy, overwrite) ==
    LET lay == set_layout(layout, <<0, 0>>)
        fmt == set_output_format(format, <<0, 0>>)
        refused == outfile = "old" /\ ~overwrite
        raised == IF refused THEN "UserInterruptError"
                  ELSE IF lay.err # "none" THEN lay.err
                  ELSE fmt.err
    IN  /\ pc = "new"
        /\ err' = raised
        /\ outfile' = IF refused THEN outfile ELSE "open"
        /\ IF raised = "none"
           THEN /\ pc' = "idle"
                /\ pages_in_width' = lay.pair[1]
                /\ pages_in_height' = lay.pair[2]
                /\ output_width' = fmt.size[1]
                /\ output_height' = fmt.size[2]
                /\ page_format' = format
                /\ copy_pages' = copy
                /\ two_sided_flip' = flip
           ELSE /\ pc' = "failed"
                /\ UNCHANGED config
        /\ UNCHANGED <<conversion, document, run>>

\* ---------------------------------------------------------------- setters
SetLayout(layout) ==
    LET lay == set_layout(layout, <<pages_in_width, pages_in_height>>)
    IN  /\ pc = "idle" /\ ~reopened
        /\ conversion' = "none"
        /\ NoRun
        /\ err' = lay.err
        /\ pages_in_width' = lay.pair[1]
        /\ pages_in_height' = lay.pair[2]
        /\ UNCHANGED <<pc, outfile, output_width, output_height, page_format,
                       copy_pages, two_sided_flip, document>>

SetOutputFormat(format) ==
    LET fmt == set_output_format(format, <<output_width, output_height>>)
    IN  /\ pc = "idle" /\ ~reopened
        /\ conversion' = "none"
        /\ NoRun
        /\ err' = fmt.err
        /\ output_width' = fmt.size[1]
        /\ output_height' = fmt.size[2]
        /\ page_format' = IF fmt.err = "none" THEN format ELSE page_format
        /\ UNCHANGED <<pc, outfile, pages_in_width, pages_in_height,
                       copy_pages, two_sided_flip, document>>

SetCopyPages(copy) ==
    /\ pc = "idle" /\ ~reopened
    /\ conversion' = "none"
    /\ NoRun
    /\ err' = "none"
    /\ copy_pages' = copy
    /\ UNCHANGED <<pc, outfile, pages_in_width, pages_in_height, output_width,
                   output_height, page_format, two_sided_flip, document>>

SetTwoSidedFlip(flip) ==
    /\ pc = "idle" /\ ~reopened
    /\ conversion' = "none"
    /\ NoRun
    /\ err' = "none"
    /\ two_sided_flip' = flip
    /\ UNCHANGED <<pc, outfile, pages_in_width, pages_in_height, output_width,
                   output_height, page_format, copy_pages, document>>

\* ------------------------------------------------------------ __do_reduce
EmptyCells(w, h) == [k \in 1..(Max(w, 0) * Max(h, 0)) |-> <<>>]

\* The offsets (tx, ty) of the slot at column horiz_pos and row vert_pos:
\* the quotients of true division, each kept as <<numerator, denominator>>.
Translate(horiz_pos, vert_pos) ==
    [tx |-> <<horiz_pos * output_width, pages_in_width>>,
     ty |-> <<output_height * pages_in_height - (vert_pos + 1) * output_height,
              pages_in_height>>]

\* The two for loops of __do_reduce over one sheet, from slot k (row-major:
\* vert_pos = k \div w, horiz_pos = k % w) on.  st holds the index into the
\* sequence, the cells of the sheet and the calls made.  current_page moves
\* on only where a page is merged.
RECURSIVE FillSheet(_, _, _, _, _, _)
FillSheet(k, st, seq, w, h, sheet) ==
    IF k >= Max(w, 0) * Max(h, 0) THEN st
    ELSE IF st.cur < Len(seq) /\ seq[st.cur + 1] # Blank
    THEN FillSheet(k + 1,
                   [cur |-> st.cur + 1,
                    cells |-> [st.cells EXCEPT ![k + 1] = inpdf[seq[st.cur + 1] + 1][1]],
                    calls |-> Append(st.calls,
                                     <<"merge", sheet, k \div w, k % w, seq[st.cur + 1],
                                       Translate(k % w, k \div w).tx,
                                       Translate(k % w, k \div w).ty>>)],
                   seq, w, h, sheet)
    ELSE FillSheet(k + 1, st, seq, w, h, sheet)

\* The sheets a sequence of n entries fills, sheet slots to a sheet.
SheetsNeeded(n, sheet) == IF sheet >= 1 THEN CeilDiv(n, sheet) ELSE n

\* A mutant: the sheets of even index are the ones turned.
SheetRotationEven(flip, sheet) ==
    IF flip = LONG_EDGE /\ sheet % 2 = 0 THEN 180 ELSE 0

\* The rotation of sheet number sheet (0-based) of __do_reduce.
SheetRotation(flip, sheet) ==
    IF flip = LONG_EDGE /\ sheet % 2 # 0 THEN 180 ELSE 0

\* bookletize and reduce up to the while loop of __do_reduce: the sequence
\* is computed first (it is the argument), then the orientation is fixed.
StartReduce(op, seq, raises) ==
    LET fix == fix_page_orientation("booklet", pages_in_width, pages_in_height,
                                    get_page_count, in_size,
                                    <<output_width, output_height>>)
        raised == IF raises THEN "ZeroDivisionError" ELSE fix.err
    IN  /\ pc = "idle" /\ ~reopened
        /\ conversion' = op
        /\ err' = raised
        /\ pc' = IF raised = "none" THEN "do_reduce" ELSE "idle"
        /\ sequence' = IF raises THEN <<>> ELSE seq
        /\ output_width' = IF raises THEN output_width ELSE fix.size[1]
        /\ output_height' = IF raises THEN output_height ELSE fix.size[2]
        /\ current_page' = 0
        /\ input_page' = 0
        /\ output_page' = 0
        /\ outpdf' = <<>>
        /\ log' = <<>>
        /\ UNCHANGED <<outfile, pages_in_width, pages_in_height, page_format,
                       copy_pages, two_sided_flip, document>>

Bookletize ==
    StartReduce("bookletize",
                get_sequence_for_booklet(get_page_count, pages_in_sheet, copy_pages),
                FALSE)

Reduce ==
    StartReduce("reduce",
                IF reduce_raises(pages_in_sheet, copy_pages) THEN <<>>
                ELSE get_sequence_for_reduce(get_page_count, pages_in_sheet, copy_pages),
                reduce_raises(pages_in_sheet, copy_pages))

\* One round of the while loop of __do_reduce: the progress callback, a new
\* blank sheet, its slots, its rotation.
DoReduceSheet ==
    LET start == [cur |-> current_page,
                  cells |-> EmptyCells(pages_in_width, pages_in_height),
                  calls |-> <<<<"progress", current_page, Len(sequence)>>,
                              <<"add_blank_page", output_page>>>>]
        st == FillSheet(0, start, sequence, pages_in_width, pages_in_height, output_page)
        rotation == SheetRotation(two_sided_flip, output_page)
    IN  /\ pc = "do_reduce"
        /\ current_page < Len(sequence)
        /\ output_page < SheetsNeeded(Len(sequence), pages_in_sheet) + ExtraSheets
        /\ current_page' = st.cur
        /\ outpdf' = Append(outpdf, [cells |-> st.cells, rotation |-> rotation])
        /\ log' = log \o st.calls
                      \o (IF rotation # 0 THEN <<<<"rotate", output_page>>>> ELSE <<>>)
        /\ output_page' = output_page + 1
        /\ UNCHANGED <<pc, err, conversion, outfile, sequence, input_page, config, document>>

\* A mutant: the callback is not called before the write.
WriteCallsOnce == <<<<"write">>, <<"progress", 1, 1>>>>

\* __write_output_stream: the callback, the write, the callback.
WriteCalls == <<<<"progress", 1, 1>>, <<"write">>, <<"progress", 1, 1>>>>

\* The end of the while loop of __do_reduce.
DoReduceWrite ==
    /\ pc = "do_reduce"
    /\ current_page >= Len(sequence)
    /\ pc' = "idle"
    /\ outfile' = outfile
    /\ log' = log \o WriteCalls
    /\ UNCHANGED <<err, conversion, sequence, current_page, input_page, output_page,
                   outpdf, config, document>>

\* ---------------------------------------------------------------- linearize
\* What region k (row-major) of an input page shows: the cell, for a page of
\* that grid, and else that part of what the page draws.
Extract(page, k, sheet) ==
    IF Len(page) = sheet THEN page[k + 1] ELSE page[1] \o <<k>>

\* The two inner for loops of linearize over one input page, from slot k on.
\* st holds the slot counter, the output pages, the calls made and the
\* error raised by sequence[output_page].
RECURSIVE CutPage(_, _, _, _, _)
CutPage(k, st, seq, w, h) ==
    IF k >= Max(w, 0) * Max(h, 0) \/ st.err # "none" THEN st
    ELSE IF st.slot >= Len(seq)
    THEN [st EXCEPT !.err = "IndexError"]
    ELSE IF seq[st.slot + 1] # Blank
    THEN CutPage(k + 1,
                 [slot |-> st.slot + 1,
                  out |-> InsertAt(st.out, seq[st.slot + 1],
                                   [cells |-> <<Extract(inpdf[input_page + 1], k, w * h)>>,
                                    rotation |-> 0]),
                  calls |-> st.calls
                                \o <<<<"progress", st.slot, Len(seq)>>,
                                     <<"insert_blank_page", seq[st.slot + 1]>>,
                                     <<"merge", input_page, k \div w, k % w, st.slot>>>>,
                  err |-> "none"],
                 seq, w, h)
    ELSE CutPage(k + 1, [st EXCEPT !.slot = st.slot + 1], seq, w, h)

\* linearize up to its loops: the orientation is fixed, then the sequence
\* is computed.
Linearize ==
    LET fix == fix_page_orientation("linearize", pages_in_width, pages_in_height,
                                    get_page_count, in_size,
                                    <<output_width, output_height>>)
    IN  /\ pc = "idle"
        /\ conversion' = "linearize"
        /\ err' = fix.err
        /\ pc' = IF fix.err = "none" THEN "linearize" ELSE "idle"
        /\ sequence' = IF fix.err = "none"
                       THEN get_sequence_for_linearize(get_page_count, pages_in_sheet,
                                                       copy_pages)
                       ELSE <<>>
        /\ output_width' = fix.size[1]
        /\ output_height' = fix.size[2]
        /\ current_page' = 0
        /\ input_page' = 0
        /\ output_page' = 0
        /\ outpdf' = <<>>
        /\ log' = <<>>
        /\ UNCHANGED <<outfile, pages_in_width, pages_in_height, page_format,
                       copy_pages, two_sided_flip, document>>

\* One round of the outer for loop of linearize.
LinearizePage ==
    LET st == CutPage(0, [slot |-> output_page, out |-> outpdf, calls |-> <<>>,
                          err |-> "none"],
                      sequence, pages_in_width, pages_in_height)
    IN  /\ pc = "linearize"
        /\ input_page < get_page_count
        /\ err' = st.err
        /\ pc' = IF st.err = "none" THEN "linearize" ELSE "idle"
        /\ input_page' = input_page + 1
        /\ output_page' = st.slot
        /\ outpdf' = st.out
        /\ log' = log \o st.calls
        /\ UNCHANGED <<conversion, outfile, sequence, current_page, config, document>>

\* The end of the loops of linearize.
LinearizeWrite ==
    /\ pc = "linearize"
    /\ input_page >= get_page_count
    /\ pc' = "idle"
    /\ outfile' = outfile
    /\ log' = log \o WriteCalls
    /\ UNCHANGED <<err, conversion, sequence, current_page, input_page, output_page,
                   outpdf, config, document>>

\* ------------------------------------------------------------- round trip
\* A converter made on the document a bookletize or reduce run wrote, with
\* the same layout, format name, flip and copy_pages: its pages are the
\* sheets of that run, of the size the run gave them.
ReopenOutput ==
    /\ pc = "idle" /\ ~reopened
    /\ conversion \in {"bookletize", "reduce"}
    /\ err = "none"
    /\ conversion' = "none"
    /\ inpdf' = [i \in 1..Len(outpdf) |-> outpdf[i].cells]
    /\ in_size' = <<output_width, output_height>>
    /\ reopened' = TRUE
    /\ orig_pages' = get_page_count
    /\ orig_op' = conversion
    /\ output_width' = PAGE_FORMATS[page_format][1]
    /\ output_height' = PAGE_FORMATS[page_format][2]
    /\ outfile' = "open"
    /\ sequence' = <<>>
    /\ current_page' = 0
    /\ input_page' = 0
    /\ output_page' = 0
    /\ outpdf' = <<>>
    /\ log' = <<>>
    /\ UNCHANGED <<pc, err, pages_in_width, pages_in_height, page_format,
                   copy_pages, two_sided_flip>>

\* ---------------------------------------------------------- specification
CommonFormats == {"A4"}
FormatInputs ==
    (IF get_page_count <= MaxFormatPages THEN DOMAIN PAGE_FORMATS ELSE CommonFormats)
        \cup {"A2"}

Next ==
    \/ \E layout \in LayoutInputs, format \in FormatInputs,
          flip \in {SHORT_EDGE, LONG_EDGE}, copy \in BOOLEAN, overwrite \in BOOLEAN :
            FileConverterInit(layout, format, flip, copy, overwrite)
    \/ \E layout \in LayoutInputs : SetLayout(layout)
    \/ \E format \in FormatInputs : SetOutputFormat(format)
    \/ \E copy \in BOOLEAN : SetCopyPages(copy)
    \/ \E flip \in {SHORT_EDGE, LONG_EDGE} : SetTwoSidedFlip(flip)
    \/ Bookletize
    \/ Reduce
    \/ DoReduceSheet
    \/ DoReduceWrite
    \/ Linearize
    \/ LinearizePage
    \/ LinearizeWrite
    \/ ReopenOutput

Spec == Init /\ [][Next]_vars

\* ================================================================ claims
Constructed == pc \in {"idle", "do_reduce", "linearize"}
ValidGrid == pages_in_width >= 1 /\ pages_in_height >= 1

\* The run of the named conversion has written its output.
Finished(op) == conversion = op /\ pc = "idle" /\ err = "none"

\* What the pages of the output document draw, in order.
OutputDrawn == [i \in 1..Len(outpdf) |-> outpdf[i].cells[1]]

\* bookletize without copy_pages wrote its sheets and linearize, with the
\* same layout, cut them again.
RoundTripDone ==
    /\ reopened
    /\ orig_op = "bookletize"
    /\ ~copy_pages
    /\ Finished("linearize")

\* C1 as stated: for every page count that is a multiple of 4 and every
\* layout, bookletize then linearize gives back pages 0..N-1 in order.
C1_RoundTripEveryLayout ==
    (RoundTripDone /\ orig_pages % 4 = 0)
        => OutputDrawn = [p \in 1..orig_pages |-> <<p - 1>>]

\* C1 amended: for every page count N that is a multiple of 4 and every
\* layout whose slots per sheet divide N, bookletize then linearize gives
\* back exactly pages 0..N-1 in order.
C1_RoundTrip ==
    (RoundTripDone /\ orig_pages % 4 = 0 /\ ValidGrid
         /\ orig_pages % pages_in_sheet = 0)
        => OutputDrawn = [p \in 1..orig_pages |-> <<p - 1>>]

C1_Witness ==
    /\ RoundTripDone
    /\ orig_pages = 8
    /\ pages_in_sheet = 4
    /\ Len(outpdf) = 8

\* The page count padded to a multiple of 4.
PaddedCount(n) == 4 * CeilDiv(n, 4)

\* bookletize or reduce has computed its sequence.
SequenceOf(op) == conversion = op /\ err # "ZeroDivisionError"

\* C2 as stated: with both layout numbers at least 1, the lengths of the
\* booklet sequence and of the reduce sequence are multiples of the slots
\* per sheet.
C2_LengthFillsSheetsAlways ==
    ((SequenceOf("bookletize") \/ SequenceOf("reduce")) /\ ValidGrid)
        => Len(sequence) % pages_in_sheet = 0

\* C2 amended: with both layout numbers at least 1, the length of the reduce
\* sequence is a multiple of the slots per sheet; the length of the booklet
\* sequence is one when copy_pages is set and the slots per sheet are even
\* or 1, and when copy_pages is not set and the slots per sheet divide the
\* page count padded to a multiple of 4.
C2_LengthFillsSheets ==
    /\ (SequenceOf("reduce") /\ ValidGrid)
           => Len(sequence) % pages_in_sheet = 0
    /\ (SequenceOf("bookletize") /\ ValidGrid
            /\ IF copy_pages
               THEN pages_in_sheet % 2 = 0 \/ pages_in_sheet = 1
               ELSE PaddedCount(get_page_count) % pages_in_sheet = 0)
           => Len(sequence) % pages_in_sheet = 0

C2_Witness ==
    /\ SequenceOf("reduce")
    /\ ~copy_pages
    /\ get_page_count = 5
    /\ pages_in_sheet = 4
    /\ Len(sequence) = 8

\* C3: bookletize and reduce end, blank entries or not, having made
\* ceil(len(sequence) / slots per sheet) sheets: the loop never makes more
\* sheets than that, and has made that many when the output is written.
C3_SheetsMade ==
    ((conversion = "bookletize" \/ conversion = "reduce") /\ ValidGrid
         /\ err = "none")
        => /\ Len(outpdf) <= CeilDiv(Len(sequence), pages_in_sheet)
           /\ pc = "idle" => Len(outpdf) = CeilDiv(Len(sequence), pages_in_sheet)

\* Entry i of the page list: a page of the document, or a blank.
PageOrBlank(i, n) == IF i >= n THEN Blank ELSE i

\* Block k (0-based) of the booklet order of p entries, n of them pages.
BookletBlock(k, p, n) ==
    <<PageOrBlank(p - 1 - 2 * k, n), PageOrBlank(2 * k, n),
      PageOrBlank(2 * k + 1, n), PageOrBlank(p - 2 - 2 * k, n)>>

\* C4: without copy_pages the booklet sequence of N pages, P the next
\* multiple of 4, is the P/4 blocks [P-1-2k, 2k, 2k+1, P-2-2k], entries
\* from N on being blank.
C4_BookletBlocks ==
    (SequenceOf("bookletize") /\ ~copy_pages)
        => LET n == get_page_count
               p == PaddedCount(n)
           IN  /\ Len(sequence) = p
               /\ \A k \in 0..(p \div 4 - 1) :
                      SubSeq(sequence, 4 * k + 1, 4 * k + 4) = BookletBlock(k, p, n)

C4_Witness ==
    /\ SequenceOf("bookletize")
    /\ ~copy_pages
    /\ sequence = <<Blank, 0, 1, Blank, 5, 2, 3, 4>>

\* C5: the reduce sequence of N pages on a W x H grid: with copy_pages,
\* N*W*H entries, none blank, page p at the positions p*W*H to
\* (p+1)*W*H-1; without, 0..N-1 in order and then only blanks, up to the
\* next multiple of W*H.
C5_ReduceSequence ==
    (SequenceOf("reduce") /\ ValidGrid)
        => LET n == get_page_count
               s == pages_in_sheet
           IN  IF copy_pages
               THEN /\ Len(sequence) = n * s
                    /\ \A i \in 1..Len(sequence) : sequence[i] = (i - 1) \div s
               ELSE /\ Len(sequence) = s * CeilDiv(n, s)
                    /\ \A i \in 1..Len(sequence) :
                           sequence[i] = IF i <= n THEN i - 1 ELSE Blank

C5_Witness ==
    /\ SequenceOf("reduce")
    /\ copy_pages
    /\ sequence = <<0, 0, 1, 1, 2, 2>>

InputOrientation == Orientation(in_size[1], in_size[2])
OutputOrientation == Orientation(output_width, output_height)

\* C6: in bookletize and reduce, with pagesInWidth = 2 * pagesInHeight: a
\* portrait input raises nothing and leaves the output sheet landscape,
\* width and height swapped iff the sheet was portrait before; a landscape
\* input raises MismatchingOrientationsError.
C6_BookletReconciler ==
    [][((Bookletize \/ Reduce) /\ pages_in_width = 2 * pages_in_height
            /\ get_page_count > 0)
        => /\ InputOrientation = PORTRAIT
                  => /\ err' = "none"
                     /\ Orientation(output_width', output_height') = LANDSCAPE
                     /\ IF OutputOrientation = PORTRAIT
                        THEN <<output_width', output_height'>> = <<output_height, output_width>>
                        ELSE <<output_width', output_height'>> = <<output_width, output_height>>
           /\ InputOrientation = LANDSCAPE
                  => err' = "MismatchingOrientationsError"]_vars

C6_Witness ==
    /\ conversion = "bookletize"
    /\ err = "none"
    /\ pages_in_width = 2
    /\ pages_in_height = 1
    /\ in_size = <<420, 595>>
    /\ <<output_width, output_height>> = <<842, 595>>

\* The page formats as the interface names them, sizes in points.
NamedFormats ==
    {<<"A3", 842, 1192>>, <<"A4", 595, 842>>, <<"A5", 420, 595>>,
     <<"Tabloid", 792, 1224>>, <<"Letter", 612, 792>>, <<"Legal", 612, 1008>>}

\* C7: set_output_format(name) returns exactly for the six names of the
\* table and then stores the (width, height) of the entry; for any other
\* name it raises UnknownFormatError with the stored width and height as
\* they were, no sheet made and no backend call done.
C7_SetOutputFormat ==
    [][/\ (pc = "new" /\ err' = "UnknownFormatError")
           => (pc' = "failed" /\ outpdf' = <<>> /\ log' = <<>>)
       /\ \A name \in DOMAIN PAGE_FORMATS \cup {"A2"} :
           SetOutputFormat(name)
               => IF \E f \in NamedFormats : f[1] = name
                  THEN /\ err' = "none"
                       /\ <<name, output_width', output_height'>> \in NamedFormats
                  ELSE /\ err' = "UnknownFormatError"
                       /\ <<output_width', output_height'>> = <<output_width, output_height>>
                       /\ outpdf' = <<>>
                       /\ log' = <<>>]_vars

C7_Witness ==
    /\ pc = "idle"
    /\ err = "UnknownFormatError"
    /\ page_format = "Legal"
    /\ <<output_width, output_height>> = <<612, 1008>>

\* C8: in bookletize and reduce a sheet is turned by 180 degrees iff the
\* flip is LONG_EDGE and its 0-based index is odd, and it is turned after
\* all its slots are filled.
C8_SheetRotation ==
    (conversion = "bookletize" \/ conversion = "reduce")
        => /\ \A i \in 1..Len(outpdf) :
                  outpdf[i].rotation = 180
                      <=> (two_sided_flip = LONG_EDGE /\ (i - 1) % 2 = 1)
           /\ \A i \in 1..Len(outpdf) :
                  outpdf[i].rotation = 180
                      <=> \E e \in 1..Len(log) : log[e] = <<"rotate", i - 1>>
           /\ \A e \in 1..Len(log), m \in 1..Len(log) :
                  (log[e][1] = "rotate" /\ log[m][1] = "merge" /\ log[m][2] = log[e][2])
                      => m < e

C8_Witness ==
    /\ Finished("bookletize")
    /\ get_page_count = 4
    /\ pages_in_width = 2
    /\ pages_in_height = 1
    /\ two_sided_flip = LONG_EDGE
    /\ Len(outpdf) = 2
    /\ outpdf[1].rotation = 0
    /\ outpdf[2].rotation = 180

\* C9: when a conversion through FileConverter fails with
\* UnknownFormatError or MismatchingOrientationsError, the destination file
\* has not been created, truncated or opened for writing.
C9_ErrorBeforeOutput ==
    err \in {"UnknownFormatError", "MismatchingOrientationsError"}
        => outfile # "open"

\* C10: the stored pagesInWidth and pagesInHeight of a converter are both
\* at least 1.
C10_LayoutPositive ==
    (Constructed /\ err = "none") => ValidGrid

\* C11: once set_output_format(name) has returned for a name of the table,
\* and before a conversion has swapped the output width and height,
\* get_output_format() returns that name.
C11_GetOutputFormat ==
    (Constructed /\ page_format \in DOMAIN PAGE_FORMATS
         /\ <<output_width, output_height>> = PAGE_FORMATS[page_format])
        => (get_output_format.err = "none" /\ get_output_format.name = page_format)

\* The calls of the log: on the progress callback, and on the backend to
\* make the next sheet (bookletize, reduce) or page (linearize).
IsProgress(e) == log[e][1] = "progress"
StartsUnit(e) == log[e][1] \in {"add_blank_page", "insert_blank_page"}
IsWrite(e) == log[e][1] = "write"
AtSerialization(e) ==
    \/ e < Len(log) /\ IsWrite(e + 1)
    \/ e > 1 /\ IsWrite(e - 1)

\* The progress callback is called once before each sheet or page is made,
\* with a fraction in [0,1] that never decreases, and n_final times when a
\* run that raised nothing writes its document.
ProgressReport(n_final) ==
    (conversion \in {"bookletize", "reduce", "linearize"})
        => /\ \A e \in 1..Len(log) : StartsUnit(e) => (e > 1 /\ IsProgress(e - 1))
           /\ \A e \in 1..Len(log) :
                  IsProgress(e)
                      => /\ log[e][3] > 0 /\ 0 <= log[e][2] /\ log[e][2] <= log[e][3]
                         /\ (e < Len(log) /\ StartsUnit(e + 1)) \/ AtSerialization(e)
           /\ \A e \in 1..Len(log), f \in 1..Len(log) :
                  (e < f /\ IsProgress(e) /\ IsProgress(f))
                      => log[e][2] * log[f][3] <= log[f][2] * log[e][3]
           /\ (pc = "idle" /\ err = "none")
                  => /\ Cardinality({e \in 1..Len(log) : IsWrite(e)}) = 1
                     /\ IsWrite(Len(log)) \/ IsWrite(Len(log) - 1)
                     /\ Cardinality({e \in 1..Len(log) :
                                         IsProgress(e) /\ AtSerialization(e)}) = n_final
                     /\ \A e \in 1..Len(log) :
                            (IsProgress(e) /\ AtSerialization(e))
                                => log[e][2] = log[e][3]
           /\ (pc # "idle" \/ err # "none") => \A e \in 1..Len(log) : ~IsWrite(e)

\* C12 as stated: in a bookletize, reduce or linearize run the progress
\* callback is called once at the start of each sheet or extracted page,
\* with a fraction in [0,1] that never decreases, and then exactly once at
\* the final serialization.
C12_ProgressOnceAtEnd == ProgressReport(1)

\* C12 amended: the same, but the callback is called exactly twice at the
\* final serialization, before and after the document is written, both
\* times with the fraction 1.
C12_Progress == ProgressReport(2)

C12_Witness ==
    /\ Finished("reduce")
    /\ Len(outpdf) = 2
    /\ log[1] = <<"progress", 0, 8>>
    /\ Len(log) = 15

\* C13: in bookletize and reduce the sequence entry at index
\* s*slotsPerSheet + r*pagesInWidth + c is the one placed on sheet s at row
\* r and column c, with the offsets tx = c*W/Pw and ty = H - (r+1)*H/Ph; a
\* blank entry leaves its slot empty, and when the run ends every entry
\* that is not blank has been merged exactly once.
C13_RowMajor ==
    ((conversion = "bookletize" \/ conversion = "reduce") /\ ValidGrid /\ err = "none")
        => LET slot(s, r, c) == s * pages_in_sheet + r * pages_in_width + c
               entry(idx) == IF idx < Len(sequence) THEN sequence[idx + 1] ELSE Blank
               merges == {m \in 1..Len(log) : log[m][1] = "merge"}
           IN  /\ \A m \in merges :
                      /\ entry(slot(log[m][2], log[m][3], log[m][4])) = log[m][5]
                      /\ log[m][6][1] * pages_in_width
                             = log[m][4] * output_width * log[m][6][2]
                      /\ log[m][7][1] * pages_in_height
                             = (output_height * pages_in_height
                                    - (log[m][3] + 1) * output_height) * log[m][7][2]
               /\ \A i \in 1..Len(outpdf), k \in 0..(pages_in_sheet - 1) :
                      outpdf[i].cells[k + 1]
                          = IF entry((i - 1) * pages_in_sheet + k) # Blank
                            THEN <<entry((i - 1) * pages_in_sheet + k)>>
                            ELSE <<>>
               /\ pc = "idle"
                      => \A idx \in 0..(Len(sequence) - 1) :
                             entry(idx) # Blank
                                 => Cardinality({m \in merges :
                                        slot(log[m][2], log[m][3], log[m][4]) = idx}) = 1

OutputSize == <<output_width, output_height>>

\* C14: in linearize, with pagesInHeight = 2 * pagesInWidth a portrait
\* input raises nothing and leaves the output sheet landscape, any other
\* input raises MismatchingOrientationsError; with pagesInWidth =
\* 2 * pagesInHeight a landscape input raises nothing and leaves the output
\* sheet portrait, any other input raises MismatchingOrientationsError.
C14_LinearizeReconciler ==
    [][(Linearize /\ ValidGrid /\ get_page_count > 0)
        => /\ pages_in_height = 2 * pages_in_width
                  => IF InputOrientation = PORTRAIT
                     THEN /\ err' = "none"
                          /\ Orientation(output_width', output_height') = LANDSCAPE
                     ELSE err' = "MismatchingOrientationsError"
           /\ pages_in_width = 2 * pages_in_height
                  => IF InputOrientation = LANDSCAPE
                     THEN /\ err' = "none"
                          /\ Orientation(output_width', output_height') = PORTRAIT
                     ELSE err' = "MismatchingOrientationsError"]_vars

C14_Witness ==
    /\ conversion = "linearize"
    /\ err = "none"
    /\ pages_in_width = 1
    /\ pages_in_height = 2
    /\ InputOrientation = PORTRAIT
    /\ OutputSize = <<842, 595>>

NeitherDouble ==
    /\ pages_in_width # 2 * pages_in_height
    /\ pages_in_height # 2 * pages_in_width

\* C15: with neither layout number the double of the other, bookletize,
\* reduce and linearize raise nothing whatever the input orientation is;
\* the output width and height are swapped only if the output orientation
\* differs from the input orientation, and after the call a portrait or
\* landscape input has an output sheet of its orientation.
C15_NoDoubleReconciler ==
    [][((Bookletize \/ Reduce \/ Linearize) /\ NeitherDouble /\ ValidGrid
            /\ get_page_count > 0)
        => /\ err' = "none"
           /\ <<output_width', output_height'>> # OutputSize
                  => /\ <<output_width', output_height'>> = <<output_height, output_width>>
                     /\ OutputOrientation # InputOrientation
           /\ InputOrientation \in {PORTRAIT, LANDSCAPE}
                  => Orientation(output_width', output_height') = InputOrientation]_vars

C15_Witness ==
    /\ conversion = "reduce"
    /\ err = "none"
    /\ pages_in_width = 2
    /\ pages_in_height = 2
    /\ InputOrientation = LANDSCAPE
    /\ page_format = "A4"
    /\ OutputSize = <<842, 595>>

\* The reconciler of a direction has run on the stored layout and sizes.
ReconcilerRan(direction) ==
    IF direction = "booklet"
    THEN conversion \in {"bookletize", "reduce"} /\ err # "ZeroDivisionError"
    ELSE conversion = "linearize"

\* What one more run of the reconciler gives.
RunAgain(direction) ==
    fix_page_orientation(direction, pages_in_width, pages_in_height, get_page_count,
                         in_size, OutputSize)

\* C19: once the reconciler has run, one more run in the same direction
\* leaves the output width and height as they are and raises
\* MismatchingOrientationsError exactly if the run before did; a run that
\* raises it leaves the output width and height unchanged.
C19_ReconcilerIdempotent ==
    /\ [](\A direction \in {"booklet", "linearize"} :
             ReconcilerRan(direction)
                 => /\ RunAgain(direction).size = OutputSize
                    /\ RunAgain(direction).err = "MismatchingOrientationsError"
                           <=> err = "MismatchingOrientationsError")
    /\ [][/\ ((Bookletize \/ Reduce) /\ ReconcilerRan("booklet")
                   /\ err' # "ZeroDivisionError")
               => /\ <<output_width', output_height'>> = OutputSize
                  /\ err' = "MismatchingOrientationsError"
                         <=> err = "MismatchingOrientationsError"
          /\ ((Bookletize \/ Reduce \/ Linearize)
                  /\ err' = "MismatchingOrientationsError")
              => <<output_width', output_height'>> = OutputSize]_vars

C19_Witness ==
    /\ Finished("bookletize")
    /\ pages_in_width = 2
    /\ pages_in_height = 1
    /\ get_page_count = 4
    /\ page_format = "A4"
    /\ OutputSize = <<842, 595>>
    /\ RunAgain("booklet").size = <<842, 595>>

\* C20: if bookletize or reduce accepted the layout with an input that is
\* not square, linearize with the same layout accepts a document whose
\* pages have the size the output sheet was left with.
C20_DirectionsConsistent ==
    (conversion \in {"bookletize", "reduce"} /\ err = "none"
         /\ InputOrientation # NoOrientation /\ get_page_count > 0)
        => fix_page_orientation("linearize", pages_in_width, pages_in_height,
                                get_page_count, OutputSize,
                                PAGE_FORMATS[page_format]).err
               # "MismatchingOrientationsError"

C20_Witness ==
    /\ conversion = "bookletize"
    /\ err = "none"
    /\ pages_in_width = 1
    /\ pages_in_height = 2
    /\ InputOrientation = LANDSCAPE
    /\ OutputOrientation = PORTRAIT

\* Spread j (0-based) of the booklet order of p entries, n of them pages.
Spread(j, p, n) ==
    IF j % 2 = 0
    THEN <<BookletBlock(j \div 2, p, n)[1], BookletBlock(j \div 2, p, n)[2]>>
    ELSE <<BookletBlock(j \div 2, p, n)[3], BookletBlock(j \div 2, p, n)[4]>>

\* C16: with copy_pages the booklet sequence is each spread repeated to
\* the length of a sheet, so that every sheet bookletize makes is filled,
\* all its slots, with the two pages of one spread in turns, and every
\* page of the document is on a sheet when the run ends.
C16_CopiedSpreads ==
    (conversion = "bookletize" /\ copy_pages /\ ValidGrid /\ err = "none")
        => LET n == get_page_count
               p == PaddedCount(n)
               s == pages_in_sheet
               copied(i, k) == Spread(i, p, n)[(k % 2) + 1]
           IN  /\ Len(sequence) = s * (p \div 2)
               /\ \A e \in 1..Len(sequence) :
                      sequence[e] = copied((e - 1) \div s, (e - 1) % s)
               /\ \A i \in 1..Len(outpdf), k \in 0..(s - 1) :
                      i <= p \div 2
                          => outpdf[i].cells[k + 1]
                                 = IF copied(i - 1, k) = Blank THEN <<>>
                                   ELSE <<copied(i - 1, k)>>
               /\ pc = "idle"
                      => \A page \in 0..(n - 1) :
                             \E i \in 1..Len(outpdf), k \in 1..s :
                                 outpdf[i].cells[k] = <<page>>

\* The linearize sequence in closed form: pair j (0-based) is (j, j) for
\* even j and (j, j + 1) for odd j; with copy_pages each pair is followed
\* by blanks up to the length of a sheet.
LinearPair(j) == IF j % 2 = 0 THEN <<j, j>> ELSE <<j, j + 1>>
LinearBlocks == IF get_page_count * pages_in_sheet <= 0 THEN 0
                ELSE CeilDiv(get_page_count * pages_in_sheet, 4)
LinearPairLength == IF copy_pages THEN 2 + Max(pages_in_sheet - 2, 0) ELSE 2
LinearSequence ==
    [e \in 1..(2 * LinearBlocks * LinearPairLength) |->
        IF (e - 1) % LinearPairLength < 2
        THEN LinearPair((e - 1) \div LinearPairLength)[((e - 1) % LinearPairLength) + 1]
        ELSE Blank]

\* The sequence cut before its first entry that is a position past the
\* pages the linearized document has (page count times slots per sheet).
RunsPast(e) ==
    LinearSequence[e] # Blank /\ LinearSequence[e] >= get_page_count * pages_in_sheet
LinearSequenceTruncated ==
    IF \E e \in 1..Len(LinearSequence) : RunsPast(e)
    THEN SubSeq(LinearSequence, 1,
                (CHOOSE e \in 1..Len(LinearSequence) :
                     RunsPast(e) /\ \A d \in 1..(e - 1) : ~RunsPast(d)) - 1)
    ELSE LinearSequence

\* linearize has computed its sequence.
LinearizeSequenced == conversion = "linearize" /\ err # "MismatchingOrientationsError"

\* C17 as stated: the linearize sequence holds, for i = 0, 4, 8, ... below
\* page count times slots per sheet, the entries i/2, i/2, i/2+1, i/2+2,
\* each pair followed by slots per sheet - 2 blanks with copy_pages, and
\* stops without an error before an entry that runs past the pages.
C17_LinearizeSequenceTruncated ==
    LinearizeSequenced => sequence = LinearSequenceTruncated

\* C17 amended: the linearize sequence holds, for i = 0, 4, 8, ... below
\* page count times slots per sheet, the entries i/2, i/2, i/2+1, i/2+2,
\* each pair followed by slots per sheet - 2 blanks with copy_pages; it is
\* never cut short, whatever its entries are.
C17_LinearizeSequence ==
    LinearizeSequenced => sequence = LinearSequence

C17_Witness ==
    /\ LinearizeSequenced
    /\ get_page_count = 1
    /\ pages_in_sheet = 1
    /\ sequence = <<0, 0, 1, 2>>

\* C18: a set_layout call that returns stores the two numbers of its
\* layout value, and one that raises leaves both stored numbers as they
\* were, so that the stored pair is that of the last call that returned.
C18_LayoutSetTogether ==
    [][\A layout \in LayoutInputs :
          SetLayout(layout)
              => IF err' = "none"
                 THEN /\ layout.kind = "seq"
                             => <<pages_in_width', pages_in_height'>> = layout.items
                      /\ (layout.kind = "str" /\ pages_in_width' \in 0..9
                              /\ pages_in_height' \in 0..9)
                             => GridString(pages_in_width', pages_in_height') = layout.chars
                 ELSE UNCHANGED <<pages_in_width, pages_in_height>>]_vars

\* The insert_blank_page calls of the log.
IsInsert(e) == log[e][1] = "insert_blank_page"

\* C21: in linearize the slot counter, which ends at page count times
\* slots per sheet, never indexes past the end of the sequence, and every
\* entry used as an insert position is at most the number of pages
\* inserted before it.
C21_LinearizeInRange ==
    (conversion = "linearize" /\ err # "MismatchingOrientationsError")
        => /\ get_page_count > 0 => err # "IndexError"
           /\ (pc = "linearize" /\ input_page < get_page_count)
                  => output_page + Max(pages_in_width, 0) * Max(pages_in_height, 0)
                         <= Len(sequence)
           /\ (pc = "idle" /\ err = "none" /\ ValidGrid)
                  => output_page = get_page_count * pages_in_sheet
           /\ \A e \in 1..Len(log) :
                  IsInsert(e)
                      => /\ log[e][2] >= 0
                         /\ log[e][2] <= Cardinality({d \in 1..(e - 1) : IsInsert(d)})

C21_Witness ==
    /\ Finished("linearize")
    /\ copy_pages
    /\ get_page_count = 2
    /\ pages_in_sheet = 4
    /\ output_page = 8
    /\ sequence[6] = 2
    /\ Len(outpdf) = 4

====
